---- MODULE Spec2Model ----
(***************************************************************************)
(* Voice/text front-end of the parking management system.                  *)
(*                                                                         *)
(* Texts and query strings are sequences of tokens (the blank-separated    *)
(* words of the string; a number is its sequence of decimal digits, a      *)
(* quoted SQL literal is a token of its own).  The regular expressions of  *)
(* the source are searches over these token sequences.                     *)
(*                                                                         *)
(* The store is the remote parking_slots table; every SDK operation on it  *)
(* is one atomic step and may raise.                                       *)
(***************************************************************************)
EXTENDS Integers, Sequences, FiniteSets, TLC

\* ------------------------------------------------------------------ bounds
NumSlots == 3
MaxSlotArg == NumSlots + 1

Slots == 1..NumSlots
Statuses == {"available", "booked", "maintenance"}

\* ------------------------------------------------------------------ tokens
W(s) == [k |-> "w", w |-> s, d |-> <<>>]
Q(s) == [k |-> "q", w |-> s, d |-> <<>>]
N(ds) == [k |-> "n", w |-> "", d |-> ds]
DIGITS == [k |-> "re", w |-> "(\\d+)", d |-> <<>>]
SLOT_ID == [k |-> "ph", w |-> "{slot_id}", d |-> <<>>]

Min(S) == CHOOSE x \in S : \A y \in S : x <= y
Max(S) == CHOOSE x \in S : \A y \in S : x >= y

\* str.lower() on the words that occur with capitals
LowerWord(s) ==
  CASE s = "SELECT" -> "select"
    [] s = "FROM" -> "from"
    [] s = "WHERE" -> "where"
    [] s = "UPDATE" -> "update"
    [] s = "SET" -> "set"
    [] s = "AND" -> "and"
    [] s = "LIMIT" -> "limit"
    [] s = "COUNT(*)" -> "count(*)"
    [] s = "Book" -> "book"
    [] s = "Slot" -> "slot"
    [] OTHER -> s

lower(text) == [i \in 1..Len(text) |-> [text[i] EXCEPT !.w = LowerWord(@)]]

\* a run of whitespace standing where str.strip() looks: at either end of a text
SP == [k |-> "s", w |-> " ", d |-> <<>>]

\* variant: the text is used as received
strip_nothing(text) == text

\* str.strip()
RECURSIVE strip(_)
strip(text) ==
  IF text = <<>> THEN <<>>
  ELSE IF Head(text) = SP THEN strip(Tail(text))
  ELSE IF text[Len(text)] = SP THEN strip(SubSeq(text, 1, Len(text) - 1))
  ELSE text

\* int(str) on a string of decimal digits
RECURSIVE int(_)
int(ds) == IF Len(ds) = 0 THEN 0
           ELSE 10 * int(SubSeq(ds, 1, Len(ds) - 1)) + ds[Len(ds)]

\* str(int) for a natural number
RECURSIVE str(_)
str(n) == IF n < 10 THEN <<n>> ELSE Append(str(n \div 10), n % 10)

\* ------------------------------------------------------------ re.search
QUOTED == [k |-> "rq", w |-> "['\"](\\w+)['\"]", d |-> <<>>]
CMP == [k |-> "op", w |-> "[=<>]", d |-> <<>>]

TokMatch(p, t) ==
  CASE p.k = "re" -> t.k = "n"
    [] p.k = "rq" -> t.k = "q"
    [] p.k = "op" -> t \in {W("="), W("<"), W(">")}
    [] OTHER -> p = t

\* variant: only the pattern's first word is compared
MatchAt_first_word(pat, text, i) ==
  /\ i + Len(pat) - 1 <= Len(text)
  /\ TokMatch(pat[1], text[i])

MatchAt(pat, text, i) ==
  /\ i + Len(pat) - 1 <= Len(text)
  /\ \A j \in 1..Len(pat) : TokMatch(pat[j], text[i + j - 1])

\* position of the leftmost match, 0 when there is none
search(pat, text) ==
  LET hits == {i \in 1..Len(text) : MatchAt(pat, text, i)}
  IN IF hits = {} THEN 0 ELSE Min(hits)

\* match.group(1): the token matched by the pattern's capturing group
group1(pat, text, i) ==
  LET j == Min({x \in 1..Len(pat) : pat[x].k \in {"re", "rq"}})
  IN text[i + j - 1]

HasWord(text, s) == \E i \in 1..Len(text) : text[i].w = s

\* a sequence of plain words
Ws(ss) == [i \in 1..Len(ss) |-> W(ss[i])]

\* ------------------------------------------------- nlp_module.QueryMapper
SELECT_FROM(t) == Ws(<<"SELECT", "*", "FROM", t>>)
SELECT_STATUS(s) ==
  SELECT_FROM("parking_slots") \o Ws(<<"WHERE", "status", "=">>) \o <<Q(s)>>
UPDATE_SET(s) == Ws(<<"UPDATE", "parking_slots", "SET", "status", "=">>) \o <<Q(s)>>
WHERE_SLOT_ID == Ws(<<"WHERE", "slot_id", "=">>) \o <<SLOT_ID>>

\* variant: the entry carries the booking template
SLOT_STATUS_book_template ==
  [key |-> "slot_status",
   patterns |-> << Ws(<<"status", "of", "slot">>) \o <<DIGITS>>,
                   <<W("slot"), DIGITS, W("status")>>,
                   <<W("is"), W("slot"), DIGITS, W("available")>>,
                   Ws(<<"check", "slot">>) \o <<DIGITS>> >>,
   table |-> "parking_slots",
   sql_template |-> UPDATE_SET("booked") \o WHERE_SLOT_ID,
   description |-> "Check status of a specific slot",
   requires_params |-> TRUE]

SLOT_STATUS ==
  [key |-> "slot_status",
   patterns |-> << Ws(<<"status", "of", "slot">>) \o <<DIGITS>>,
                   <<W("slot"), DIGITS, W("status")>>,
                   <<W("is"), W("slot"), DIGITS, W("available")>>,
                   Ws(<<"check", "slot">>) \o <<DIGITS>> >>,
   table |-> "parking_slots",
   sql_template |-> SELECT_FROM("parking_slots") \o WHERE_SLOT_ID,
   description |-> "Check status of a specific slot",
   requires_params |-> TRUE]

\* the pattern table, in declaration order
patterns == <<
  [key |-> "available_slots",
   patterns |-> << Ws(<<"show", "available", "slots">>),
                   Ws(<<"available", "slots">>),
                   Ws(<<"free", "slots">>),
                   Ws(<<"empty", "slots">>),
                   Ws(<<"show", "free", "parking">>),
                   Ws(<<"what", "slots", "are", "available">>),
                   Ws(<<"list", "available", "parking">>) >>,
   table |-> "parking_slots",
   sql_template |-> SELECT_STATUS("available"),
   description |-> "Show all available parking slots",
   requires_params |-> FALSE],
  [key |-> "book_slot",
   patterns |-> << Ws(<<"book", "slot">>) \o <<DIGITS>>,
                   Ws(<<"reserve", "slot">>) \o <<DIGITS>>,
                   Ws(<<"occupy", "slot">>) \o <<DIGITS>>,
                   Ws(<<"park", "in", "slot">>) \o <<DIGITS>>,
                   Ws(<<"use", "slot">>) \o <<DIGITS>>,
                   Ws(<<"take", "slot">>) \o <<DIGITS>> >>,
   table |-> "parking_slots",
   sql_template |-> UPDATE_SET("booked") \o WHERE_SLOT_ID,
   description |-> "Book a specific parking slot",
   requires_params |-> TRUE],
  [key |-> "release_slot",
   patterns |-> << Ws(<<"release", "slot">>) \o <<DIGITS>>,
                   Ws(<<"free", "slot">>) \o <<DIGITS>>,
                   Ws(<<"vacate", "slot">>) \o <<DIGITS>>,
                   Ws(<<"leave", "slot">>) \o <<DIGITS>>,
                   Ws(<<"empty", "slot">>) \o <<DIGITS>> >>,
   table |-> "parking_slots",
   sql_template |-> UPDATE_SET("available") \o WHERE_SLOT_ID,
   description |-> "Release a parking slot",
   requires_params |-> TRUE],
  [key |-> "all_slots",
   patterns |-> << Ws(<<"show", "all", "slots">>),
                   Ws(<<"list", "all", "slots">>),
                   Ws(<<"show", "parking", "slots">>),
                   Ws(<<"display", "slots">>),
                   Ws(<<"all", "parking", "slots">>) >>,
   table |-> "parking_slots",
   sql_template |-> SELECT_FROM("parking_slots"),
   description |-> "Show all parking slots",
   requires_params |-> FALSE],
  [key |-> "vehicles",
   patterns |-> << Ws(<<"show", "vehicles">>),
                   Ws(<<"list", "vehicles">>),
                   Ws(<<"show", "all", "vehicles">>),
                   Ws(<<"registered", "vehicles">>) >>,
   table |-> "vehicles",
   sql_template |-> SELECT_FROM("vehicles"),
   description |-> "Show all registered vehicles",
   requires_params |-> FALSE],
  [key |-> "users",
   patterns |-> << Ws(<<"show", "users">>),
                   Ws(<<"list", "users">>),
                   Ws(<<"show", "all", "users">>),
                   Ws(<<"registered", "users">>) >>,
   table |-> "users",
   sql_template |-> SELECT_FROM("users"),
   description |-> "Show all registered users",
   requires_params |-> FALSE],
  [key |-> "parking_logs",
   patterns |-> << Ws(<<"show", "parking", "logs">>),
                   Ws(<<"parking", "history">>),
                   Ws(<<"show", "logs">>),
                   Ws(<<"parking", "records">>),
                   Ws(<<"transaction", "history">>) >>,
   table |-> "parking_logs",
   sql_template |-> SELECT_FROM("parking_logs"),
   description |-> "Show parking transaction logs",
   requires_params |-> FALSE],
  SLOT_STATUS >>

\* str.replace of the {slot_id} placeholder; params = <<>> is the empty dict
_generate_sql(sql_template, params) ==
  IF params = <<>> THEN sql_template
  ELSE [i \in 1..Len(sql_template) |->
          IF sql_template[i] = SLOT_ID THEN N(params) ELSE sql_template[i]]

\* variant: the test for an intent having patterns is inverted
_get_suggestions_inverted ==
  LET RECURSIVE collect(_)
      collect(i) == IF i = 0 THEN <<>>
                    ELSE IF Len(patterns[i].patterns) = 0
                    THEN Append(collect(i - 1), <<>>)
                    ELSE collect(i - 1)
  IN collect(Len(patterns))

\* the first pattern of every intent
_get_suggestions == [i \in 1..Len(patterns) |-> patterns[i].patterns[1]]

NoQueryInfo ==
  [success |-> FALSE, query_type |-> "", sql_query |-> <<>>, description |-> "",
   table |-> "", parameters |-> <<>>, error |-> "", suggestions |-> <<>>]

\* variant: the table is walked from its last intent to its first
map_voice_to_query_reversed(voice_text) ==
  LET text == lower(voice_text)
      matching(c) == {j \in 1..Len(c.patterns) : search(c.patterns[j], text) > 0}
      intents == {i \in 1..Len(patterns) : matching(patterns[i]) # {}}
  IN IF intents = {}
     THEN [NoQueryInfo EXCEPT !.error = "No matching pattern found",
                              !.suggestions = _get_suggestions]
     ELSE LET config == patterns[Max(intents)]
              pattern == config.patterns[Min(matching(config))]
              params == IF config.requires_params
                        THEN group1(pattern, text, search(pattern, text)).d
                        ELSE <<>>
          IN [NoQueryInfo EXCEPT !.success = TRUE,
                                 !.query_type = config.key,
                                 !.sql_query = _generate_sql(config.sql_template, params),
                                 !.description = config.description,
                                 !.table = config.table,
                                 !.parameters = params]

map_voice_to_query(voice_text) ==
  LET text == lower(voice_text)
      matching(c) == {j \in 1..Len(c.patterns) : search(c.patterns[j], text) > 0}
      intents == {i \in 1..Len(patterns) : matching(patterns[i]) # {}}
  IN IF intents = {}
     THEN [NoQueryInfo EXCEPT !.error = "No matching pattern found",
                              !.suggestions = _get_suggestions]
     ELSE LET config == patterns[Min(intents)]
              pattern == config.patterns[Min(matching(config))]
              params == IF config.requires_params
                        THEN group1(pattern, text, search(pattern, text)).d
                        ELSE <<>>
          IN [NoQueryInfo EXCEPT !.success = TRUE,
                                 !.query_type = config.key,
                                 !.sql_query = _generate_sql(config.sql_template, params),
                                 !.description = config.description,
                                 !.table = config.table,
                                 !.parameters = params]

\* ------------------------------------------ ai_pipeline.local_orchestrator
BOOK_ANY_SQL ==
  UPDATE_SET("booked")
    \o Ws(<<"WHERE", "slot_id", "=", "(", "SELECT", "slot_id", "FROM",
            "parking_slots", "WHERE", "status", "=">>)
    \o <<Q("available"), W("LIMIT"), N(<<1>>), W(")")>>
COUNT_STATUS(s) ==
  Ws(<<"SELECT", "COUNT(*)", "FROM", "parking_slots", "WHERE", "status", "=">>)
    \o <<Q(s)>>
WHERE_STATUS(s) == Ws(<<"WHERE", "status", "=">>) \o <<Q(s)>>

FALLBACK_LABEL == 13

LABEL_TO_INTENT ==
  [l \in 0..FALLBACK_LABEL |->
    CASE l = 0 -> [key |-> "get_available_slots",
                   description |-> "Show all available parking slots",
                   sql |-> SELECT_STATUS("available"), needs_slot_id |-> FALSE]
      [] l = 1 -> [key |-> "get_filled_slots",
                   description |-> "Show all booked (filled) parking slots",
                   sql |-> SELECT_STATUS("booked"), needs_slot_id |-> FALSE]
      [] l = 2 -> [key |-> "book_specific_slot",
                   description |-> "Book a specific parking slot by its ID",
                   sql |-> UPDATE_SET("booked") \o WHERE_SLOT_ID
                             \o Ws(<<"AND", "status", "=">>) \o <<Q("available")>>,
                   needs_slot_id |-> TRUE]
      [] l = 3 -> [key |-> "book_any_slot",
                   description |-> "Book the next available parking slot",
                   sql |-> BOOK_ANY_SQL, needs_slot_id |-> FALSE]
      [] l = 4 -> [key |-> "release_specific_slot",
                   description |-> "Release a specific parking slot by its ID",
                   sql |-> UPDATE_SET("available") \o WHERE_SLOT_ID,
                   needs_slot_id |-> TRUE]
      [] l = 5 -> [key |-> "get_specific_slot_status",
                   description |-> "Check status of a specific slot by its ID",
                   sql |-> SELECT_FROM("parking_slots") \o WHERE_SLOT_ID,
                   needs_slot_id |-> TRUE]
      [] l = 6 -> [key |-> "get_all_slots",
                   description |-> "Show a list of all parking slots",
                   sql |-> SELECT_FROM("parking_slots"), needs_slot_id |-> FALSE]
      [] l = 7 -> [key |-> "get_available_count",
                   description |-> "Count the number of available slots",
                   sql |-> COUNT_STATUS("available"), needs_slot_id |-> FALSE]
      [] l = 8 -> [key |-> "get_filled_count",
                   description |-> "Count the number of booked (filled) slots",
                   sql |-> COUNT_STATUS("booked"), needs_slot_id |-> FALSE]
      [] l = 9 -> [key |-> "release_all_slots",
                   description |-> "Release all booked parking slots",
                   sql |-> UPDATE_SET("available") \o WHERE_STATUS("booked"),
                   needs_slot_id |-> FALSE]
      [] l = 10 -> [key |-> "book_all_slots",
                    description |-> "Book all available parking slots",
                    sql |-> UPDATE_SET("booked") \o WHERE_STATUS("available"),
                    needs_slot_id |-> FALSE]
      [] l = 11 -> [key |-> "set_maintenance",
                    description |-> "Set a specific slot to maintenance mode",
                    sql |-> UPDATE_SET("maintenance") \o WHERE_SLOT_ID,
                    needs_slot_id |-> TRUE]
      [] l = 12 -> [key |-> "get_maintenance_slots",
                    description |-> "Show all slots in maintenance mode",
                    sql |-> SELECT_STATUS("maintenance"), needs_slot_id |-> FALSE]
      [] OTHER -> [key |-> "fallback",
                   description |-> "Out-of-scope request, do nothing",
                   sql |-> <<>>, needs_slot_id |-> FALSE]]

\* "slot" [ "number" ] digits, else the first standalone number, else -1
\* (the text is searched as given, not lowercased)
_extract_slot_id(text) ==
  LET p1 == <<W("slot"), W("number"), DIGITS>>
      p2 == <<W("slot"), DIGITS>>
      hits == {i \in 1..Len(text) : MatchAt(p1, text, i) \/ MatchAt(p2, text, i)}
      nums == {i \in 1..Len(text) : text[i].k = "n"}
  IN IF hits # {}
     THEN LET i == Min(hits)
          IN int(IF MatchAt(p1, text, i) THEN text[i + 2].d ELSE text[i + 1].d)
     ELSE IF nums # {} THEN int(text[Min(nums)].d) ELSE -1

\* the classifier's label string, split on "_": its last piece is parsed
classify_text(label_str) ==
  LET last == label_str[Len(label_str)]
  IN IF last.k = "n" THEN int(last.d) ELSE 9

\* ------------------------------------------- supabase_module (src/)
\* rows of the tables this program never writes
OtherTable(t) == <<[table |-> t, id |-> 1, status |-> ""]>>

Row(n, st) == [table |-> "parking_slots", id |-> n, status |-> st]

\* the ids in S in ascending order
RECURSIVE Ordered(_)
Ordered(S) == IF S = {} THEN <<>> ELSE <<Min(S)>> \o Ordered(S \ {Min(S)})

\* rows of parking_slots whose id is in S, ordered by slot_id
Rows(S, st) == LET o == Ordered(S) IN [i \in 1..Len(o) |-> Row(o[i], st[o[i]])]

NoResult == [success |-> FALSE, error |-> "", data |-> <<>>, message |-> <<>>]
Error(e) == [NoResult EXCEPT !.error = e]
Data(rows) == [NoResult EXCEPT !.success = TRUE, !.data = rows]

NoPlan == [op |-> "", error |-> "", table |-> "", slot_id |-> 0,
           new_status |-> "", old_status |-> ""]

STATUS_EQ == <<W("status"), W("="), QUOTED>>

\* the call _handle_select_query makes for a query
_handle_select_query(query) ==
  LET query_lower == lower(query)
      pat == <<W("where"), W("slot_id"), CMP, DIGITS>>
      slot_id_match == search(pat, query_lower)
      by_status(s) == HasWord(query_lower, "status") /\ HasWord(query_lower, s)
  IN IF HasWord(query_lower, "parking_slots")
     THEN IF slot_id_match > 0
          THEN [NoPlan EXCEPT !.op = "select_slot",
                  !.slot_id = int(group1(pat, query_lower, slot_id_match).d)]
          ELSE IF by_status("available")
          THEN [NoPlan EXCEPT !.op = "select_status", !.old_status = "available"]
          ELSE IF by_status("booked")
          THEN [NoPlan EXCEPT !.op = "select_status", !.old_status = "booked"]
          ELSE IF by_status("maintenance")
          THEN [NoPlan EXCEPT !.op = "select_status", !.old_status = "maintenance"]
          ELSE [NoPlan EXCEPT !.op = "select_all"]
     ELSE IF HasWord(query_lower, "vehicles")
     THEN [NoPlan EXCEPT !.op = "select_table", !.table = "vehicles"]
     ELSE IF HasWord(query_lower, "users")
     THEN [NoPlan EXCEPT !.op = "select_table", !.table = "users"]
     ELSE IF HasWord(query_lower, "parking_logs")
     THEN [NoPlan EXCEPT !.op = "select_table", !.table = "parking_logs"]
     ELSE [NoPlan EXCEPT !.op = "error", !.error = "Table not found in query"]

\* variant: the bulk pattern is used, "where" directly followed by status
WhereStatusMatch_adjacent(query_lower) ==
  LET hits == {j \in 2..Len(query_lower) :
                 /\ MatchAt(<<W("status"), W("="), QUOTED>>, query_lower, j)
                 /\ query_lower[j - 1] = W("where")}
  IN IF hits = {} THEN 0 ELSE Max(hits)

\* variant: the pattern lacks its "where", so the SET clause matches too
WhereStatusMatch_anywhere(query_lower) ==
  LET hits == {j \in 1..Len(query_lower) : MatchAt(STATUS_EQ, query_lower, j)}
  IN IF hits = {} THEN 0 ELSE Max(hits)

\* the last status='x' that follows a "where" (where.*status = 'x', greedy)
WhereStatusMatch(query_lower) ==
  LET hits == {j \in 1..Len(query_lower) :
                 /\ MatchAt(STATUS_EQ, query_lower, j)
                 /\ \E i \in 1..(j - 1) : query_lower[i] = W("where")}
  IN IF hits = {} THEN 0 ELSE Max(hits)

\* the calls _handle_update_query makes for a query
_handle_update_query(query) ==
  LET query_lower == lower(query)
      status_match == search(STATUS_EQ, query_lower)
      new_status == group1(STATUS_EQ, query_lower, status_match).w
      id_pat == <<W("slot_id"), CMP, DIGITS>>
      slot_id_match == search(id_pat, query_lower)
      has_subquery == HasWord(query_lower, "select") /\ HasWord(query_lower, "limit")
      where_status_match == WhereStatusMatch(query_lower)
      bulk_pat == <<W("where")>> \o STATUS_EQ
      bulk_match == search(bulk_pat, query_lower)
  IN IF ~(HasWord(query_lower, "parking_slots") /\ HasWord(query_lower, "status"))
     THEN [NoPlan EXCEPT !.op = "error", !.error = "Unsupported UPDATE query"]
     ELSE IF status_match = 0
     THEN [NoPlan EXCEPT !.op = "error", !.error = "Could not parse status from query"]
     ELSE IF has_subquery
     THEN IF new_status = "booked"
          THEN [NoPlan EXCEPT !.op = "book_any", !.new_status = new_status]
          ELSE [NoPlan EXCEPT !.op = "error",
                  !.error = "Subquery only supported for booking slots"]
     ELSE IF slot_id_match > 0
     THEN LET slot_id == int(group1(id_pat, query_lower, slot_id_match).d)
          IN IF where_status_match > 0
             THEN [NoPlan EXCEPT !.op = "update_slot_if", !.slot_id = slot_id,
                     !.new_status = new_status,
                     !.old_status = query_lower[where_status_match + 2].w]
             ELSE [NoPlan EXCEPT !.op = "update_slot", !.slot_id = slot_id,
                     !.new_status = new_status]
     ELSE IF bulk_match > 0
     THEN [NoPlan EXCEPT !.op = "update_bulk", !.new_status = new_status,
             !.old_status = group1(bulk_pat, query_lower, bulk_match).w]
     ELSE [NoPlan EXCEPT !.op = "error",
             !.error = "Bulk update without WHERE clause is not allowed for safety"]

\* dispatch on the first word of the query
execute_query(query) ==
  LET query_lower == lower(query)
      first == IF Len(query_lower) = 0 THEN "" ELSE query_lower[1].w
  IN CASE first = "select" -> _handle_select_query(query)
       [] first = "insert" -> [NoPlan EXCEPT !.op = "simplified"]
       [] first = "update" -> _handle_update_query(query)
       [] first = "delete" -> [NoPlan EXCEPT !.op = "simplified"]
       [] OTHER -> [NoPlan EXCEPT !.op = "error", !.error = "Unsupported query type"]

\* ------------------------- supabase_module (AI-Parking-Management-System-main)
\* 'slot_id=3' in query_lower or 'slot_id = 3' in query_lower: a substring
\* test, true of every number whose first digit is 3
simple_handle_update_query(query) ==
  LET query_lower == lower(query)
      hit == \E i \in 1..Len(query_lower) :
               /\ MatchAt(<<W("slot_id"), W("="), DIGITS>>, query_lower, i)
               /\ query_lower[i + 2].d[1] = 3
  IN IF ~(HasWord(query_lower, "parking_slots") /\ HasWord(query_lower, "status"))
     THEN [NoPlan EXCEPT !.op = "error", !.error = "Unsupported UPDATE query"]
     ELSE IF hit
     THEN [NoPlan EXCEPT !.op = "update_slot", !.slot_id = 3, !.new_status = "booked"]
     ELSE [NoPlan EXCEPT !.op = "error", !.error = "Could not parse slot_id from query"]

simple_handle_select_query(query) ==
  LET query_lower == lower(query)
  IN IF HasWord(query_lower, "parking_slots")
     THEN IF HasWord(query_lower, "status") /\ HasWord(query_lower, "available")
          THEN [NoPlan EXCEPT !.op = "select_status", !.old_status = "available"]
          ELSE [NoPlan EXCEPT !.op = "select_all"]
     ELSE IF HasWord(query_lower, "vehicles")
     THEN [NoPlan EXCEPT !.op = "select_table", !.table = "vehicles"]
     ELSE IF HasWord(query_lower, "users")
     THEN [NoPlan EXCEPT !.op = "select_table", !.table = "users"]
     ELSE IF HasWord(query_lower, "parking_logs")
     THEN [NoPlan EXCEPT !.op = "select_table", !.table = "parking_logs"]
     ELSE [NoPlan EXCEPT !.op = "error", !.error = "Table not found in query"]

simple_execute_query(query) ==
  LET query_lower == lower(query)
      first == IF Len(query_lower) = 0 THEN "" ELSE query_lower[1].w
  IN CASE first = "select" -> simple_handle_select_query(query)
       [] first = "insert" -> [NoPlan EXCEPT !.op = "simplified"]
       [] first = "update" -> simple_handle_update_query(query)
       [] first = "delete" -> [NoPlan EXCEPT !.op = "simplified"]
       [] OTHER -> [NoPlan EXCEPT !.op = "error", !.error = "Unsupported query type"]

\* ------------------------------------------------------- response shaping
\* variant: the booking branch tests the orchestrator's key
_generate_tts_response_other_key(query_info, result) ==
  LET query_type == query_info.query_type
      count == N(str(Len(result.data)))
      slot_id == IF query_info.parameters = <<>> THEN W("unknown")
                 ELSE N(query_info.parameters)
  IN IF result.success
     THEN CASE query_type = "available_slots" ->
                 <<W("Found"), count>> \o Ws(<<"available", "parking", "slots.">>)
            [] query_type = "booked_slots" ->
                 <<W("Found"), count>> \o Ws(<<"booked", "parking", "slots.">>)
            [] query_type = "book_specific_slot" ->
                 <<W("Slot"), slot_id>> \o Ws(<<"has", "been", "booked", "successfully.">>)
            [] query_type = "release_slot" ->
                 <<W("Slot"), slot_id>> \o Ws(<<"has", "been", "released", "successfully.">>)
            [] query_type \in {"all_slots", "vehicles", "users", "parking_logs"} ->
                 <<W("Retrieved"), count>> \o Ws(<<"records", "from", query_info.table>>)
            [] OTHER -> Ws(<<"Query", "executed", "successfully:", query_info.description>>)
     ELSE Ws(<<"Query", "failed:", result.error>>)

\* app.py / app_simple.py
_generate_tts_response(query_info, result) ==
  LET query_type == query_info.query_type
      count == N(str(Len(result.data)))
      slot_id == IF query_info.parameters = <<>> THEN W("unknown")
                 ELSE N(query_info.parameters)
  IN IF result.success
     THEN CASE query_type = "available_slots" ->
                 <<W("Found"), count>> \o Ws(<<"available", "parking", "slots.">>)
            [] query_type = "booked_slots" ->
                 <<W("Found"), count>> \o Ws(<<"booked", "parking", "slots.">>)
            [] query_type = "book_slot" ->
                 <<W("Slot"), slot_id>> \o Ws(<<"has", "been", "booked", "successfully.">>)
            [] query_type = "release_slot" ->
                 <<W("Slot"), slot_id>> \o Ws(<<"has", "been", "released", "successfully.">>)
            [] query_type \in {"all_slots", "vehicles", "users", "parking_logs"} ->
                 <<W("Retrieved"), count>> \o Ws(<<"records", "from", query_info.table>>)
            [] OTHER -> Ws(<<"Query", "executed", "successfully:", query_info.description>>)
     ELSE Ws(<<"Query", "failed:", result.error>>)

\* local_orchestrator; params = 0 is the empty dict
_tts_text_for(intent_key, sql_result, params) ==
  LET count == N(str(Len(sql_result.data)))
      slot_id == IF params = 0 THEN W("unknown") ELSE N(str(params))
  IN IF ~sql_result.success
     THEN Ws(<<"Query", "failed:", sql_result.error>>)
     ELSE CASE intent_key = "available_slots" ->
                 <<W("Found"), count>> \o Ws(<<"available", "parking", "slots.">>)
            [] intent_key = "booked_slots" ->
                 <<W("Found"), count>> \o Ws(<<"booked", "parking", "slots.">>)
            [] intent_key = "all_slots" ->
                 <<W("Retrieved"), count>> \o Ws(<<"parking", "slots.">>)
            [] intent_key = "book_slot" ->
                 <<W("Slot"), slot_id>> \o Ws(<<"has", "been", "booked", "successfully.">>)
            [] intent_key = "release_slot" ->
                 <<W("Slot"), slot_id>> \o Ws(<<"has", "been", "released", "successfully.">>)
            [] intent_key \in {"vehicles", "users", "parking_logs"} ->
                 <<W("Retrieved"), count,
                   W(CASE intent_key = "vehicles" -> "vehicles."
                       [] intent_key = "users" -> "users."
                       [] OTHER -> "parking logs.")>>
            [] intent_key = "slot_status" ->
                 Ws(<<"Returned", "status", "for", "slot">>) \o <<slot_id>>
            [] OTHER -> Ws(<<"Query", "executed", "successfully.">>)

\* ---------------------------------------------------------------- requests
LeadingZero == <<0, 1>>
SlotArgs == {str(n) : n \in 0..MaxSlotArg} \cup {LeadingZero}

RegexTexts ==
  {Ws(<<"book", "slot">>) \o <<N(a)>> : a \in SlotArgs}
  \cup {Ws(<<"release", "slot">>) \o <<N(a)>> : a \in SlotArgs}
  \cup {Ws(<<"status", "of", "slot">>) \o <<N(a)>> : a \in SlotArgs}
  \cup { Ws(<<"book", "slot">>),
         Ws(<<"Book", "Slot">>) \o <<N(<<2>>)>>,
         Ws(<<"show", "available", "slots">>),
         Ws(<<"show", "all", "slots">>),
         Ws(<<"show", "vehicles">>),
         Ws(<<"show", "users">>),
         Ws(<<"show", "parking", "logs">>),
         Ws(<<"show", "available", "slots", "then", "book", "slot">>) \o <<N(<<1>>)>>,
         Ws(<<"hello">>),
         <<SP>> \o Ws(<<"show", "available", "slots">>) \o <<SP>>,
         <<SP>>,
         <<SP, SP>>,
         <<>> }

PlainText == Ws(<<"book", "slot">>)

OrchTexts ==
  {Ws(<<"slot">>) \o <<N(str(n))>> : n \in 0..MaxSlotArg}
  \cup { PlainText,
         Ws(<<"slot", "number">>) \o <<N(<<0, 2>>)>>,
         Ws(<<"Slot">>) \o <<N(<<1>>), W("or"), W("slot"), N(<<2>>)>>,
         <<W("take"), N(<<3>>), W("please")>> }

MaxLabel == 14
LabelStrs ==
  {<<W("LABEL"), N(str(l))>> : l \in 0..MaxLabel} \cup {<<W("LABEL"), W("X")>>}

Request(a, t, l) == [app |-> a, text |-> t, label |-> l]

\* variant: an unknown label defaults to the table's first entry
label_info_first(label_id) ==
  IF label_id \in DOMAIN LABEL_TO_INTENT
  THEN LABEL_TO_INTENT[label_id] ELSE LABEL_TO_INTENT[0]

label_info(label_id) ==
  IF label_id \in DOMAIN LABEL_TO_INTENT
  THEN LABEL_TO_INTENT[label_id] ELSE LABEL_TO_INTENT[FALLBACK_LABEL]

AppRequests == {Request("app", t, <<>>) : t \in RegexTexts}
SimpleRequests == {Request("simple", t, <<>>) : t \in RegexTexts}
\* the text matters to the orchestrator only when the intent needs a slot id
OrchRequests ==
  {r \in {Request("orch", t, l) : t \in OrchTexts, l \in LabelStrs} :
     label_info(classify_text(r.label)).needs_slot_id \/ r.text = PlainText}

\* a declared pattern as a phrase: its digit group replaced by the number n
Phrase(c, j, n) ==
  LET p == patterns[c].patterns[j]
  IN [i \in 1..Len(p) |-> IF p[i] = DIGITS THEN N(str(n)) ELSE p[i]]

\* the first phrase of intent a (naming slot 1), "then", the first phrase of
\* intent b (naming slot 2)
TwoPhrases(a, b) == Phrase(a, 1, 1) \o <<W("then")>> \o Phrase(b, 1, 2)

\* <<c, j>> for the j-th pattern of the c-th intent
Declared ==
  UNION {{<<c, j>> : j \in 1..Len(patterns[c].patterns)} : c \in 1..Len(patterns)}

\* the slot numbers a declared pattern is tried with
PhraseSlots(d) == IF d[2] = 1 THEN {1, NumSlots} ELSE {NumSlots}

PhraseTexts ==
  UNION {{Phrase(d[1], d[2], n) : n \in PhraseSlots(d)} : d \in Declared}
  \cup {TwoPhrases(d[1], d[2]) :
          d \in {e \in (1..Len(patterns)) \X (1..Len(patterns)) : e[1] # e[2]}}
  \cup {Ws(<<"hello">>)}

PhraseRequests == {Request("app", t, <<>>) : t \in PhraseTexts}

\* texts sent to working_app.py
DemoTexts ==
  {Ws(<<"book", "slot">>) \o <<N(a)>> : a \in SlotArgs}
  \cup {Ws(<<"Book", "Slot">>) \o <<N(a)>> : a \in SlotArgs}
  \cup {Ws(<<"please", "book", "slot">>) \o <<N(a)>> : a \in SlotArgs}
  \cup {Ws(<<"book", "slot">>) \o <<N(a), W("now")>> : a \in SlotArgs}
  \cup {Ws(<<"release", "slot">>) \o <<N(a)>> : a \in SlotArgs}
  \cup { Ws(<<"book", "slot">>),
         Ws(<<"available", "slots">>),
         Ws(<<"show", "available", "slots">>),
         Ws(<<"show", "available", "slots", "then", "book", "slot">>) \o <<N(<<1>>)>>,
         Ws(<<"show", "all", "slots">>),
         Ws(<<"show", "vehicles">>),
         Ws(<<"show", "users">>),
         Ws(<<"show", "parking", "logs">>),
         Ws(<<"hello">>),
         <<SP>>,
         <<>> }

DemoRequests == {Request("demo", t, <<>>) : t \in DemoTexts}

AllRequests ==
  AppRequests \cup SimpleRequests \cup OrchRequests \cup PhraseRequests
  \cup DemoRequests

\* ------------------------------------------------- the handlers, first half
\* The handler's local variables once the intent is resolved: error is the
\* answer given before any query is executed ("" when execute_query is called)
NoQuery ==
  [app |-> "", text |-> <<>>, label |-> <<>>, error |-> "", suggestions |-> <<>>,
   query_type |-> "", description |-> "", table |-> "", sql_query |-> <<>>,
   parameters |-> <<>>, slot_id |-> 0]

\* app.py / app_simple.py process_query, up to the call of execute_query
RegexResolve(r, query_info) ==
  IF r.text = <<>>
  THEN [NoQuery EXCEPT !.app = r.app, !.text = r.text, !.label = r.label,
                       !.error = "No voice text provided"]
  ELSE IF ~query_info.success
  THEN [NoQuery EXCEPT !.app = r.app, !.text = r.text, !.label = r.label,
                       !.error = query_info.error,
                       !.suggestions = query_info.suggestions]
  ELSE [NoQuery EXCEPT !.app = r.app, !.text = r.text, !.label = r.label,
                       !.query_type = query_info.query_type,
                       !.description = query_info.description,
                       !.table = query_info.table,
                       !.sql_query = query_info.sql_query,
                       !.parameters = query_info.parameters]

\* variant: only a negative slot id is refused
OrchResolve_negative_only(r, label_id, info, slot_id) ==
  IF info.key = "fallback" \/ label_id = FALLBACK_LABEL
  THEN [NoQuery EXCEPT !.app = r.app, !.text = r.text, !.label = r.label,
                       !.error = "Out-of-scope request. Supported queries: available slots, booked slots, all slots, book slot <n>, release slot <n>, vehicles, users, logs, slot status <n>."]
  ELSE IF info.needs_slot_id /\ slot_id < 0
  THEN [NoQuery EXCEPT !.app = r.app, !.text = r.text, !.label = r.label,
                       !.error = "Missing or invalid slot number. Try like: \"book slot 3\"."]
  ELSE [NoQuery EXCEPT !.app = r.app, !.text = r.text, !.label = r.label,
                       !.query_type = info.key,
                       !.description = info.description,
                       !.sql_query =
                          _generate_sql(info.sql, IF info.needs_slot_id
                                                  THEN str(slot_id) ELSE <<>>),
                       !.parameters = IF info.needs_slot_id THEN str(slot_id) ELSE <<>>,
                       !.slot_id = IF info.needs_slot_id THEN slot_id ELSE 0]

\* process_text_query, up to the call of execute_query
OrchResolve(r, label_id, info, slot_id) ==
  IF info.key = "fallback" \/ label_id = FALLBACK_LABEL
  THEN [NoQuery EXCEPT !.app = r.app, !.text = r.text, !.label = r.label,
                       !.error = "Out-of-scope request. Supported queries: available slots, booked slots, all slots, book slot <n>, release slot <n>, vehicles, users, logs, slot status <n>."]
  ELSE IF info.needs_slot_id /\ slot_id <= 0
  THEN [NoQuery EXCEPT !.app = r.app, !.text = r.text, !.label = r.label,
                       !.error = "Missing or invalid slot number. Try like: \"book slot 3\"."]
  ELSE [NoQuery EXCEPT !.app = r.app, !.text = r.text, !.label = r.label,
                       !.query_type = info.key,
                       !.description = info.description,
                       !.sql_query =
                          _generate_sql(info.sql, IF info.needs_slot_id
                                                  THEN str(slot_id) ELSE <<>>),
                       !.parameters = IF info.needs_slot_id THEN str(slot_id) ELSE <<>>,
                       !.slot_id = IF info.needs_slot_id THEN slot_id ELSE 0]

process_text_query(r, label_id) ==
  OrchResolve(r, label_id, label_info(label_id), _extract_slot_id(r.text))

\* 'words' in voice_text.lower()
Contains(text, words) == search(Ws(words), lower(text)) # 0

\* working_app.py process_query, up to the call of execute_demo_query
DemoResolve(r) ==
  LET q == [NoQuery EXCEPT !.app = r.app, !.text = r.text, !.label = r.label]
  IN IF r.text = <<>>
     THEN [q EXCEPT !.error = "No voice text provided"]
     ELSE IF Contains(r.text, <<"available", "slots">>)
     THEN [q EXCEPT !.query_type = "available_slots",
                    !.description = "Show all available parking slots",
                    !.sql_query = SELECT_STATUS("available")]
     ELSE IF Contains(r.text, <<"book", "slot">>)
     THEN [q EXCEPT !.query_type = "book_slot",
                    !.description = "Book parking slot",
                    !.sql_query = UPDATE_SET("booked") \o Ws(<<"WHERE", "slot_id", "=">>)
                                    \o <<r.text[Len(r.text)]>>,
                    !.parameters = r.text[Len(r.text)].d]
     ELSE IF Contains(r.text, <<"show", "vehicles">>)
     THEN [q EXCEPT !.query_type = "vehicles",
                    !.description = "Show all vehicles",
                    !.sql_query = SELECT_FROM("vehicles")]
     ELSE IF Contains(r.text, <<"show", "parking", "logs">>)
     THEN [q EXCEPT !.query_type = "parking_logs",
                    !.description = "Show parking logs",
                    !.sql_query = SELECT_FROM("parking_logs")]
     ELSE IF Contains(r.text, <<"show", "all", "slots">>)
     THEN [q EXCEPT !.query_type = "all_slots",
                    !.description = "Show all parking slots",
                    !.sql_query = SELECT_FROM("parking_slots")]
     ELSE [q EXCEPT !.error = "Command not recognized",
                    !.suggestions =
                       << Ws(<<"show", "available", "slots">>),
                          Ws(<<"book", "slot">>) \o <<N(<<3>>)>>,
                          Ws(<<"show", "vehicles">>),
                          Ws(<<"show", "parking", "logs">>) >>]

Resolve(r) ==
  IF r.app = "orch" THEN process_text_query(r, classify_text(r.label))
  ELSE IF r.app = "demo" THEN DemoResolve([r EXCEPT !.text = strip(r.text)])
  ELSE RegexResolve([r EXCEPT !.text = strip(r.text)],
                    map_voice_to_query(strip(r.text)))

Resolved == [r \in AllRequests |-> Resolve(r)]

\* ------------------------------------------------ the handlers, second half
NoResponse ==
  [success |-> FALSE, error |-> "", suggestions |-> <<>>, query_type |-> "",
   sql_query |-> <<>>, database_result |-> NoResult, tts_text |-> <<>>]

ErrorResponse(q) == [NoResponse EXCEPT !.error = q.error, !.suggestions = q.suggestions]

\* process_query / process_text_query after execute_query has returned
Respond(q, result) ==
  [NoResponse EXCEPT
     !.success = IF q.app = "orch" THEN result.success ELSE TRUE,
     !.query_type = q.query_type,
     !.sql_query = q.sql_query,
     !.database_result = result,
     !.tts_text = IF q.app = "orch"
                  THEN _tts_text_for(q.query_type, result, q.slot_id)
                  ELSE _generate_tts_response(q, result)]

\* the dispatcher the application imports
Plan(q) ==
  IF q.app = "simple" THEN simple_execute_query(q.sql_query)
  ELSE execute_query(q.sql_query)

\* -------------------------------------------------------------------- state
Workers == {"w1", "w2"}

VARIABLES
  status,      \* parking_slots.status, by slot_id (the remote table)
  pc,          \* per worker: "ready", "exec" (before execute_query's first
               \* SDK operation), "write" (book-any, between select and update)
  req,         \* per worker: the locals of the request being handled (or of
               \* the last one)
  resp,        \* per worker: the response to the last finished request
  slot,        \* per worker: the slot_id read by book-any's select
  calls,       \* per worker: SDK operations issued for the current request
  prev_booked, \* n when the request finished before the one begun last was a
               \* regex "book slot n" whose update was applied, else 0
  last_writer, \* the worker whose SDK update was applied last ("" if none)
  overlap,     \* the request begun last began while another was in flight
  prev_shown   \* the rows answered by the request finished before the one
               \* begun last, when that was a "show available slots" whose
               \* select was applied and no slot has changed since

vars ==
  <<status, pc, req, resp, slot, calls, prev_booked, last_writer, overlap, prev_shown>>

NotShown == [shown |-> FALSE, data |-> <<>>]

Init ==
  /\ status \in [Slots -> Statuses]
  /\ pc = [w \in Workers |-> "ready"]
  /\ req = [w \in Workers |-> NoQuery]
  /\ resp = [w \in Workers |-> NoResponse]
  /\ slot = [w \in Workers |-> 0]
  /\ calls = [w \in Workers |-> 0]
  /\ prev_booked = 0
  /\ last_writer = ""
  /\ overlap = FALSE
  /\ prev_shown = NotShown

\* ---------------------------------------------------------- SDK operations
\* variant: the select by status has lost its .eq('status', ...)
Select_unfiltered(plan, st) ==
  CASE plan.op = "select_slot" -> Rows({plan.slot_id} \cap Slots, st)
    [] plan.op = "select_status" -> Rows(Slots, st)
    [] plan.op = "select_all" -> Rows(Slots, st)
    [] OTHER -> OtherTable(plan.table)

\* variant: the select by slot has lost its .eq('slot_id', slot_id)
Select_without_slot_id(plan, st) ==
  CASE plan.op = "select_status" ->
         Rows({n \in Slots : st[n] = plan.old_status}, st)
    [] plan.op \in {"select_slot", "select_all"} -> Rows(Slots, st)
    [] OTHER -> OtherTable(plan.table)

\* .select('*')[.eq(...)].order('slot_id').execute()
Select(plan, st) ==
  CASE plan.op = "select_slot" -> Rows({plan.slot_id} \cap Slots, st)
    [] plan.op = "select_status" ->
         Rows({n \in Slots : st[n] = plan.old_status}, st)
    [] plan.op = "select_all" -> Rows(Slots, st)
    [] OTHER -> OtherTable(plan.table)

status_action(new_status) ==
  CASE new_status = "booked" -> "booked"
    [] new_status = "available" -> "released"
    [] OTHER -> "updated"

\* variant: the bulk update has lost its .eq('status', old_status)
Matched_bulk_all(plan, st) ==
  CASE plan.op = "update_slot" -> {plan.slot_id} \cap Slots
    [] plan.op = "update_slot_if" ->
         {n \in {plan.slot_id} \cap Slots : st[n] = plan.old_status}
    [] OTHER -> Slots

\* variant: every single-slot update also filters on status = 'available'
Matched_only_available(plan, st) ==
  CASE plan.op \in {"update_slot", "update_slot_if"} ->
         {n \in {plan.slot_id} \cap Slots : st[n] = "available"}
    [] OTHER -> {n \in Slots : st[n] = plan.old_status}

\* variant: the conditional single-slot update has lost its
\* .eq('status', old_status)
Matched_slot_only(plan, st) ==
  CASE plan.op \in {"update_slot", "update_slot_if"} -> {plan.slot_id} \cap Slots
    [] OTHER -> {n \in Slots : st[n] = plan.old_status}

\* the slots an .update(...).eq(...) touches
Matched(plan, st) ==
  CASE plan.op = "update_slot" -> {plan.slot_id} \cap Slots
    [] plan.op = "update_slot_if" ->
         {n \in {plan.slot_id} \cap Slots : st[n] = plan.old_status}
    [] OTHER -> {n \in Slots : st[n] = plan.old_status}

\* variant: the update writes the action word instead of the new status
Update_status_action(S, v, st) ==
  [n \in Slots |-> IF n \in S THEN status_action(v) ELSE st[n]]

\* .update({'status': v}) on the slots in S
Update(S, v, st) == [n \in Slots |-> IF n \in S THEN v ELSE st[n]]

\* the dict _handle_update_query returns after its update was applied
UpdateResult(plan, rows) ==
  [NoResult EXCEPT !.success = TRUE, !.data = rows,
     !.message = IF plan.op = "update_bulk"
                 THEN <<N(str(Len(rows))), W("slots"),
                        W(status_action(plan.new_status)), W("successfully")>>
                 ELSE <<W("Slot"), N(str(plan.slot_id)),
                        W(status_action(plan.new_status)), W("successfully")>>]

\* ------------------------------------------------------------------ actions
\* the request worker w has just finished, as prev_booked records it
JustBooked(w) ==
  IF /\ req[w].app \in {"app", "simple", "demo"}
     /\ req[w].query_type = "book_slot"
     /\ resp[w].database_result.success
  THEN int(req[w].parameters)
  ELSE 0

\* the request worker w has just finished, as prev_shown records it
JustShown(w) ==
  IF req[w].query_type = "available_slots" /\ resp[w].database_result.success
  THEN [shown |-> TRUE, data |-> resp[w].database_result.data]
  ELSE NotShown

Begin(w, q) ==
  /\ pc[w] = "ready"
  /\ req' = [req EXCEPT ![w] = q]
  /\ prev_booked' = JustBooked(w)
  /\ prev_shown' = JustShown(w)
  /\ calls' = [calls EXCEPT ![w] = 0]
  /\ slot' = [slot EXCEPT ![w] = 0]
  /\ overlap' = \E v \in Workers \ {w} : pc[v] # "ready"
  /\ UNCHANGED <<status, last_writer>>

\* the request is answered without a query being executed
Reject(w, q) ==
  /\ q.error # ""
  /\ Begin(w, q)
  /\ resp' = [resp EXCEPT ![w] = ErrorResponse(q)]
  /\ UNCHANGED pc

\* the request resolves to a query; execute_query is called next
Accept(w, q) ==
  /\ q.error = ""
  /\ Begin(w, q)
  /\ resp' = [resp EXCEPT ![w] = NoResponse]
  /\ pc' = [pc EXCEPT ![w] = "exec"]

\* the request returns; st is the table as the request leaves it
Finished(w, response, st) ==
  /\ resp' = [resp EXCEPT ![w] = response]
  /\ pc' = [pc EXCEPT ![w] = "ready"]
  /\ prev_shown' = IF st # status THEN NotShown ELSE prev_shown
  /\ UNCHANGED <<req, prev_booked, overlap>>

Finish(w, response) == Finished(w, response, status)

Call(w) == calls' = [calls EXCEPT ![w] = @ + 1]

\* execute_query returns an error (or a canned success) without an SDK call
DoError(w, q, plan) ==
  /\ plan.op \in {"error", "simplified"}
  /\ Finish(w, Respond(q, IF plan.op = "error" THEN Error(plan.error)
                          ELSE [NoResult EXCEPT !.success = TRUE,
                                  !.message = Ws(<<"query", "executed", "(simplified)">>)]))
  /\ UNCHANGED <<status, slot, calls, last_writer>>

ExecuteError(w) == pc[w] = "exec" /\ DoError(w, req[w], Plan(req[w]))

\* variant: _handle_select_query has no try/except, so process_query's own
\* except clause answers
DoSelect_uncaught(w, q, plan, rows) ==
  /\ plan.op \in {"select_slot", "select_status", "select_all", "select_table"}
  /\ Call(w)
  /\ \/ Finish(w, Respond(q, Data(rows)))
     \/ Finish(w, [NoResponse EXCEPT !.error = "Query processing error"])
  /\ UNCHANGED <<status, slot, last_writer>>

\* _handle_select_query: one select, which may raise
DoSelect(w, q, plan, rows) ==
  /\ plan.op \in {"select_slot", "select_status", "select_all", "select_table"}
  /\ Call(w)
  /\ \/ Finish(w, Respond(q, Data(rows)))
     \/ Finish(w, Respond(q, Error("SELECT query failed")))
  /\ UNCHANGED <<status, slot, last_writer>>

ExecuteSelect(w) ==
  /\ pc[w] = "exec"
  /\ DoSelect(w, req[w], Plan(req[w]), Select(Plan(req[w]), status))

\* variant: an update that raises is issued again
DoUpdate_retry(w, q, plan, S, st) ==
  /\ Call(w)
  /\ \/ /\ status' = st
        /\ last_writer' = w
        /\ Finished(w, Respond(q, UpdateResult(plan, Rows(S, st))), st)
     \/ UNCHANGED <<status, last_writer, pc, req, resp, prev_booked, overlap, prev_shown>>
  /\ UNCHANGED slot

\* an .update(...).execute() on the slots S, which may raise (a call that
\* raises is taken not to have been applied)
DoUpdate(w, q, plan, S, st) ==
  /\ Call(w)
  /\ \/ /\ status' = st
        /\ last_writer' = w
        /\ Finished(w, Respond(q, UpdateResult(plan, Rows(S, st))), st)
     \/ /\ Finish(w, Respond(q, Error("UPDATE query failed")))
        /\ UNCHANGED <<status, last_writer>>
  /\ UNCHANGED slot

Apply(w, q, plan, S) == DoUpdate(w, q, plan, S, Update(S, plan.new_status, status))

\* _handle_update_query, single-slot and bulk: one update
ExecuteUpdate(w) ==
  /\ pc[w] = "exec"
  /\ Plan(req[w]).op \in {"update_slot", "update_slot_if", "update_bulk"}
  /\ Apply(w, req[w], Plan(req[w]), Matched(Plan(req[w]), status))

\* variant: the select has lost its .order('slot_id')
DoBookAnySelect_unordered(w, q, available) ==
  /\ Call(w)
  /\ \/ /\ available # {}
        /\ \E s \in available : slot' = [slot EXCEPT ![w] = s]
        /\ pc' = [pc EXCEPT ![w] = "write"]
        /\ UNCHANGED <<req, resp, prev_booked, overlap, prev_shown>>
     \/ /\ available = {}
        /\ Finish(w, Respond(q, Error("No available slots to book")))
        /\ UNCHANGED slot
     \/ /\ Finish(w, Respond(q, Error("UPDATE query failed")))
        /\ UNCHANGED slot
  /\ UNCHANGED <<status, last_writer>>

\* book any slot, first SDK operation: select the first available slot
DoBookAnySelect(w, q, available) ==
  /\ Call(w)
  /\ \/ /\ available # {}
        /\ slot' = [slot EXCEPT ![w] = Min(available)]
        /\ pc' = [pc EXCEPT ![w] = "write"]
        /\ UNCHANGED <<req, resp, prev_booked, overlap, prev_shown>>
     \/ /\ available = {}
        /\ Finish(w, Respond(q, Error("No available slots to book")))
        /\ UNCHANGED slot
     \/ /\ Finish(w, Respond(q, Error("UPDATE query failed")))
        /\ UNCHANGED slot
  /\ UNCHANGED <<status, last_writer>>

BookAnySelect(w) ==
  /\ pc[w] = "exec"
  /\ Plan(req[w]).op = "book_any"
  /\ DoBookAnySelect(w, req[w], {n \in Slots : status[n] = "available"})

\* variant: the update is refused when the slot read is no longer available
BookAnyUpdate_rechecked(w) ==
  /\ pc[w] = "write"
  /\ IF status[slot[w]] = "available"
     THEN Apply(w, req[w], [Plan(req[w]) EXCEPT !.slot_id = slot[w]], {slot[w]})
     ELSE /\ Call(w)
          /\ Finish(w, Respond(req[w], Error("No available slots to book")))
          /\ UNCHANGED <<status, slot, last_writer>>

\* book any slot, second SDK operation: update the slot that was read
BookAnyUpdate(w) ==
  /\ pc[w] = "write"
  /\ Apply(w, req[w], [Plan(req[w]) EXCEPT !.slot_id = slot[w]], {slot[w]})

\* ----------------------------------------------------------- specifications
\* src/app.py and the orchestrator over src/supabase_module.py, one request
\* at a time
Receive(w, q) == Reject(w, q) \/ Accept(w, q)

Next ==
  \/ \E r \in AppRequests \cup OrchRequests : Receive("w1", Resolved[r])
  \/ ExecuteSelect("w1")
  \/ ExecuteUpdate("w1")
  \/ BookAnySelect("w1")
  \/ BookAnyUpdate("w1")

Spec == Init /\ [][Next]_vars

\* app_simple.py over its own supabase_module.py, one request at a time
NextSimple ==
  \/ \E r \in SimpleRequests : Receive("w1", Resolved[r])
  \/ ExecuteSelect("w1")
  \/ ExecuteUpdate("w1")
  \/ ExecuteError("w1")

SpecSimple == Init /\ [][NextSimple]_vars

\* two requests in flight against the same table: the regex resolver's
\* "book slot n" / "release slot n" (src/app.py) and the orchestrator's
\* book_any_slot, each SDK operation one step
BOOK_ANY_LABEL == <<W("LABEL"), N(<<3>>)>>

ConcSlots == {1, NumSlots}

ConcRequests ==
  {Request("app", Ws(<<"book", "slot">>) \o <<N(str(n))>>, <<>>) : n \in ConcSlots}
  \cup {Request("app", Ws(<<"release", "slot">>) \o <<N(str(n))>>, <<>>) : n \in ConcSlots}
  \cup {Request("orch", PlainText, BOOK_ANY_LABEL)}

NextConc ==
  \E w \in Workers :
    \/ \E r \in ConcRequests : Accept(w, Resolved[r])
    \/ ExecuteUpdate(w)
    \/ BookAnySelect(w)
    \/ BookAnyUpdate(w)

SpecConc == Init /\ [][NextConc]_vars

\* src/app.py over src/supabase_module.py, handling the declared phrases and
\* texts made of two of them
NextPhrases ==
  \/ \E r \in PhraseRequests : Receive("w1", Resolved[r])
  \/ ExecuteSelect("w1")
  \/ ExecuteUpdate("w1")

SpecPhrases == Init /\ [][NextPhrases]_vars

\* ------------------------------------------------- working_app.py (demo)
\* DEMO_DATA['parking_slots'] as the module is loaded: the status of the
\* table's first NumSlots rows (slots 3 and 9 are booked, the others available)
DEMO_DATA == [n \in Slots |-> IF n \in {3, 9} THEN "booked" ELSE "available"]

\* the rows of DEMO_DATA's other tables
DemoTable(t) ==
  [i \in 1..(IF t = "parking_logs" THEN 3 ELSE 5) |-> [table |-> t, id |-> i, status |-> ""]]

\* execute_demo_query: the result dict and DEMO_DATA['parking_slots'] as the
\* call leaves it; parameters is <<>> for None, else the slot_id string
execute_demo_query(sql_query, parameters, st) ==
  LET sql == lower(sql_query)
      unchanged(result) == [result |-> result, table |-> st]
  IN IF HasWord(sql, "parking_slots")
     THEN IF HasWord(sql, "status") /\ HasWord(sql, "available")
          THEN unchanged(Data(Rows({n \in Slots : st[n] = "available"}, st)))
          ELSE unchanged(Data(Rows(Slots, st)))
     ELSE IF HasWord(sql, "vehicles") THEN unchanged(Data(DemoTable("vehicles")))
     ELSE IF HasWord(sql, "users") THEN unchanged(Data(DemoTable("users")))
     ELSE IF HasWord(sql, "parking_logs") THEN unchanged(Data(DemoTable("parking_logs")))
     ELSE IF HasWord(sql, "update") /\ HasWord(sql, "parking_slots")
     THEN IF parameters = <<>>
          THEN unchanged(Error("Could not process slot update"))
          ELSE IF parameters[1].k # "n"
          THEN unchanged(Error("Demo query execution failed"))
          ELSE LET slot_id == int(parameters[1].d)
                   new == IF HasWord(sql, "booked") THEN "booked" ELSE "available"
               IN IF slot_id \in Slots /\ (HasWord(sql, "booked") \/ HasWord(sql, "available"))
                  THEN [result |-> [Data(<<Row(slot_id, new)>>) EXCEPT
                                      !.message = <<W("Slot"), N(str(slot_id)),
                                                    W(status_action(new)), W("successfully")>>],
                        table |-> [st EXCEPT ![slot_id] = new]]
                  ELSE unchanged(Error("Could not process slot update"))
     ELSE unchanged(Error("Query not supported in demo mode"))

\* working_app.py process_query after execute_demo_query has returned
DemoRespond(q, result) ==
  [NoResponse EXCEPT
     !.success = TRUE,
     !.query_type = q.query_type,
     !.sql_query = q.sql_query,
     !.database_result = result,
     !.tts_text =
        IF result.success
        THEN <<W("Found"), N(str(Len(result.data))), W("results"), W("for"),
               W(q.description)>>
             \o (IF q.query_type = "book_slot"
                 THEN <<q.sql_query[Len(q.sql_query)]>> ELSE <<>>)
        ELSE <<W("Error:"), W(result.error)>>]

DemoAnswer(w, q, out) ==
  /\ status' = out.table
  /\ Finished(w, DemoRespond(q, out.result), out.table)
  /\ UNCHANGED <<slot, calls, last_writer>>

\* the query is executed on the in-memory data and the response returned
DemoExecute(w) ==
  /\ pc[w] = "exec"
  /\ DemoAnswer(w, req[w],
                execute_demo_query(req[w].sql_query,
                                   IF req[w].query_type = "book_slot"
                                   THEN <<req[w].sql_query[Len(req[w].sql_query)]>>
                                   ELSE <<>>,
                                   status))

InitDemo == Init /\ status = DEMO_DATA

NextDemo ==
  \/ \E r \in DemoRequests : Receive("w1", Resolved[r])
  \/ DemoExecute("w1")

SpecDemo == InitDemo /\ [][NextDemo]_vars

\* ------------------------------------------------------------- properties
w1 == "w1"

\* the SDK operations of worker w's last request returned without raising
\* and execute_query answered success
Applied(w) == pc[w] = "ready" /\ resp[w].database_result.success

Raised(response) ==
  response.database_result.error \in {"UPDATE query failed", "SELECT query failed"}

\* the decimal digits of n occur in a number of the text
HasNumber(text, n) ==
  \E i \in 1..Len(text) :
    /\ text[i].k = "n"
    /\ \E j \in 1..Len(text[i].d) :
         j + Len(str(n)) - 1 <= Len(text[i].d)
         /\ SubSeq(text[i].d, j, j + Len(str(n)) - 1) = str(n)

IsRegex(q, app, key, n) ==
  q.app = app /\ q.query_type = key /\ int(q.parameters) = n

BookKeys == {"book_slot", "book_specific_slot", "book_any_slot", "book_all_slots"}
ReleaseKeys == {"release_slot", "release_specific_slot", "release_all_slots"}

\* C1: under every sequence of requests dispatched through src/supabase_module
\* (the orchestrator's labels 0-12 with any slot id among them) each slot has
\* exactly one status and it is available, booked or maintenance.
C1_OneStatusPerSlot == status \in [Slots -> Statuses]

C1_Witness ==
  /\ Applied(w1)
  /\ req[w1].app = "orch"
  /\ req[w1].query_type = "set_maintenance"
  /\ req[w1].slot_id \in Slots
  /\ status[req[w1].slot_id] = "maintenance"
  /\ Len(resp[w1].database_result.data) = 1

\* C2: regex resolver over src/supabase_module: when "release slot n" is
\* processed right after "book slot n" (both updates applied, no request in
\* between), slot n is available, whatever its status was before.
BookedThenReleased(app, n) ==
  /\ Applied(w1)
  /\ IsRegex(req[w1], app, "release_slot", n)
  /\ prev_booked = n

C2_BookThenRelease ==
  \A n \in Slots : BookedThenReleased("app", n) => status[n] = "available"

C2_Witness ==
  \E n \in Slots : BookedThenReleased("app", n) /\ status[n] = "available"

\* C3: regex resolver over the dispatcher app_simple.py imports: after
\* "book slot 3" and then "release slot 3", slot 3 is available.
C3_SimpleBookThenRelease ==
  BookedThenReleased("simple", 3) => status[3] = "available"

\* the step in which worker w's request, a booking of slot n that is
\* available, gets its answer without the SDK raising
BooksAvailable(w, app, key, n) ==
  /\ pc[w] = "exec"
  /\ req[w].app = app
  /\ req[w].query_type = key
  /\ int(req[w].parameters) = n
  /\ status[n] = "available"
  /\ pc'[w] = "ready"
  /\ ~Raised(resp'[w])

\* C4: src/app.py: "book slot n" for an available slot n is answered with
\* success=true and a tts_text containing n and "booked", and n is booked
\* afterwards.
C4_BookAvailableSlot ==
  [][\A n \in Slots :
       BooksAvailable(w1, "app", "book_slot", n) =>
         /\ resp'[w1].success
         /\ HasNumber(resp'[w1].tts_text, n)
         /\ HasWord(resp'[w1].tts_text, "booked")
         /\ status'[n] = "booked"]_vars

C4_Witness ==
  \E n \in Slots :
    /\ Applied(w1)
    /\ IsRegex(req[w1], "app", "book_slot", n)
    /\ resp[w1].success
    /\ resp[w1].tts_text =
         <<W("Slot"), N(req[w1].parameters)>>
           \o Ws(<<"has", "been", "booked", "successfully.">>)
    /\ status[n] = "booked"

\* C5: orchestrator: a text classified book_specific_slot naming an available
\* slot n is answered with success=true and a tts_text containing n and
\* "booked".
C5_OrchBookAvailableSlot ==
  [][\A n \in Slots :
       BooksAvailable(w1, "orch", "book_specific_slot", n) =>
         /\ resp'[w1].success
         /\ HasNumber(resp'[w1].tts_text, n)
         /\ HasWord(resp'[w1].tts_text, "booked")]_vars

BookedMessage(n) == <<W("Slot"), N(str(n)), W("booked"), W("successfully")>>

\* C6: book-any is a select followed by an unguarded update: the update of a
\* request that read slot s answers success "Slot s booked successfully"
\* whatever has happened to s since the select, so two overlapping requests
\* that read the same slot both report having booked it.
C6_BookAnyAnswersReadSlot ==
  [][\A w \in Workers :
       (pc[w] = "write" /\ pc'[w] = "ready" /\ ~Raised(resp'[w])) =>
         /\ resp'[w].success
         /\ resp'[w].database_result.message = BookedMessage(slot[w])]_vars

C6_BothBookedSameSlot ==
  \E s \in Slots :
    /\ overlap
    /\ \A w \in Workers :
         /\ Applied(w)
         /\ req[w].query_type = "book_any_slot"
         /\ slot[w] = s
         /\ resp[w].success
         /\ resp[w].database_result.message = BookedMessage(s)

\* a regex "book slot n" of worker b and a regex "release slot n" of worker r
\* overlapped and both updates were applied
BookReleaseRace(b, r, n) ==
  /\ b # r
  /\ overlap
  /\ Applied(b) /\ IsRegex(req[b], "app", "book_slot", n)
  /\ Applied(r) /\ IsRegex(req[r], "app", "release_slot", n)

\* C7: a regex "book slot n" and a regex "release slot n" that run
\* concurrently both answer success, and slot n ends with the status written
\* by the update that was applied last.
C7_LastWriteWins ==
  \A n \in Slots : \A b \in Workers : \A r \in Workers :
    BookReleaseRace(b, r, n) =>
      /\ resp[b].success /\ resp[r].success
      /\ last_writer \in {b, r}
      /\ status[n] = IF last_writer = b THEN "booked" ELSE "available"

C7_Witness ==
  \E n \in Slots : \E b \in Workers : \E r \in Workers :
    BookReleaseRace(b, r, n) /\ last_writer = b /\ status[n] = "booked"

\* C8 as stated: a step changes a slot's status only when the request being
\* handled is a booking or a release.
C8_OnlyBookOrRelease ==
  [][status' # status => req[w1].query_type \in BookKeys \cup ReleaseKeys]_vars

\* C8 amended: a step changes a slot's status only when the request being
\* handled is a booking, a release or set_maintenance; every other intent
\* leaves every slot unchanged.
C8_OnlyBookReleaseMaintenance ==
  [][status' # status =>
       req[w1].query_type \in BookKeys \cup ReleaseKeys \cup {"set_maintenance"}]_vars

C8_Witness ==
  /\ Applied(w1)
  /\ calls[w1] = 1
  /\ req[w1].query_type \notin BookKeys \cup ReleaseKeys \cup {"set_maintenance"}
  /\ Len(resp[w1].database_result.data) > 0

\* the orchestrator's intent needs a slot id and the text yields none
NeedsSlotHasNone(q) ==
  /\ q.app = "orch"
  /\ label_info(classify_text(q.label)).needs_slot_id
  /\ _extract_slot_id(q.text) <= 0

\* C9: orchestrator: when the intent needs a slot id and _extract_slot_id
\* returns <= 0, the answer is success=false with the missing/invalid slot
\* number error, no SDK operation is issued and no slot changes.
C9_MissingSlotRefused ==
  [][NeedsSlotHasNone(req'[w1]) =>
       /\ pc'[w1] = "ready"
       /\ ~resp'[w1].success
       /\ resp'[w1].error = "Missing or invalid slot number. Try like: \"book slot 3\"."
       /\ calls'[w1] = 0
       /\ status' = status]_vars

C9_Witness ==
  /\ NeedsSlotHasNone(req[w1])
  /\ pc[w1] = "ready"
  /\ resp[w1].error = "Missing or invalid slot number. Try like: \"book slot 3\"."
  /\ _extract_slot_id(req[w1].text) = 0

\* the text holds the words of a slot-parameter pattern with no number, or
\* the number 0, where the pattern has its digits
SlotCommandWithoutSlot(text) ==
  \E c \in 1..Len(patterns) : \E j \in 1..Len(patterns[c].patterns) :
    LET p == patterns[c].patterns[j]
        words == SubSeq(p, 1, Len(p) - 1)
    IN /\ patterns[c].requires_params
       /\ p[Len(p)] = DIGITS
       /\ \E i \in 1..Len(text) :
            /\ MatchAt(words, lower(text), i)
            /\ \/ i + Len(words) > Len(text)
               \/ text[i + Len(words)].k # "n"
               \/ int(text[i + Len(words)].d) = 0

\* C10: regex resolver: a slot-parameter command whose slot number is absent
\* or not positive is answered with an error, and no query string is
\* generated or executed for it.
C10_RegexMissingSlotRefused ==
  (req[w1].app = "app" /\ SlotCommandWithoutSlot(req[w1].text)) =>
    /\ pc[w1] = "ready"
    /\ req[w1].error # ""
    /\ req[w1].sql_query = <<>>
    /\ calls[w1] = 0

\* the regex resolver finds no pattern in the text of worker w1's request
NoPatternMatches(q) == q.app = "app" /\ ~map_voice_to_query(q.text).success

RefusedWithSuggestions(q, response) ==
  /\ map_voice_to_query(q.text).suggestions # <<>>
  /\ pc[w1] = "ready"
  /\ ~response.success
  /\ response.suggestions = map_voice_to_query(q.text).suggestions
  /\ calls[w1] = 0

\* C11 as stated: for every text in which no pattern occurs,
\* map_voice_to_query returns success=false with a non-empty suggestions
\* list and /query answers success=false with that list, without a backend
\* call.
C11_NoMatchSuggestions ==
  NoPatternMatches(req[w1]) => RefusedWithSuggestions(req[w1], resp[w1])

\* C11 amended: the same for every non-empty text; an empty text is answered
\* "No voice text provided" with no suggestions, and without a backend call.
C11_NoMatchSuggestionsNonEmpty ==
  NoPatternMatches(req[w1]) =>
    IF req[w1].text # <<>>
    THEN RefusedWithSuggestions(req[w1], resp[w1])
    ELSE /\ pc[w1] = "ready"
         /\ ~resp[w1].success
         /\ resp[w1].error = "No voice text provided"
         /\ resp[w1].suggestions = <<>>
         /\ calls[w1] = 0

C11_Witness ==
  /\ NoPatternMatches(req[w1])
  /\ req[w1].text = Ws(<<"hello">>)
  /\ resp[w1].error = "No matching pattern found"
  /\ Len(resp[w1].suggestions) = Len(patterns)

\* the classifier's label is the fallback label or no key of the table
FallbackLabel(q) ==
  /\ q.app = "orch"
  /\ \/ classify_text(q.label) = FALLBACK_LABEL
     \/ classify_text(q.label) \notin DOMAIN LABEL_TO_INTENT

OUT_OF_SCOPE ==
  "Out-of-scope request. Supported queries: available slots, booked slots, all slots, book slot <n>, release slot <n>, vehicles, users, logs, slot status <n>."

\* C12: orchestrator: a label that is 13 or no key of LABEL_TO_INTENT is
\* answered success=false with the out-of-scope error, with no backend call
\* and no slot changed.
C12_FallbackRefused ==
  [][FallbackLabel(req'[w1]) =>
       /\ pc'[w1] = "ready"
       /\ ~resp'[w1].success
       /\ resp'[w1].error = OUT_OF_SCOPE
       /\ calls'[w1] = 0
       /\ status' = status]_vars

C12_Witness ==
  /\ FallbackLabel(req[w1])
  /\ classify_text(req[w1].label) \notin DOMAIN LABEL_TO_INTENT
  /\ pc[w1] = "ready"
  /\ resp[w1].error = OUT_OF_SCOPE

\* C13: every declared pattern, its digit group replaced by a slot number,
\* resolves to the key of the intent that declares it.
C13_PatternRoundTrip ==
  \A d \in Declared : \A n \in PhraseSlots(d) :
    (req[w1].app = "app" /\ req[w1].text = Phrase(d[1], d[2], n)) =>
      /\ req[w1].error = ""
      /\ req[w1].query_type = patterns[d[1]].key
      /\ patterns[d[1]].requires_params => req[w1].parameters = str(n)

C13_Witness ==
  \E n \in {NumSlots} :
    /\ Applied(w1)
    /\ req[w1].text = <<W("slot"), N(str(n)), W("status")>>
    /\ req[w1].query_type = "slot_status"
    /\ resp[w1].database_result.data = Rows({n}, status)

\* the query of intent c for slot n (n is not used when c takes no slot)
QueryOf(c, n) ==
  _generate_sql(patterns[c].sql_template,
                IF patterns[c].requires_params THEN str(n) ELSE <<>>)

\* C14: a text holding a phrase of intent a and a phrase of a later-declared
\* intent b, in either order, resolves to a, and only a's query is executed.
C14_FirstDeclaredWins ==
  \A a \in 1..Len(patterns) : \A b \in 1..Len(patterns) :
    (a < b /\ req[w1].app = "app") =>
      /\ req[w1].text = TwoPhrases(a, b) =>
           /\ req[w1].query_type = patterns[a].key
           /\ req[w1].sql_query = QueryOf(a, 1)
           /\ pc[w1] = "ready" => resp[w1].sql_query = QueryOf(a, 1)
           /\ calls[w1] <= 1
      /\ req[w1].text = TwoPhrases(b, a) =>
           /\ req[w1].query_type = patterns[a].key
           /\ req[w1].sql_query = QueryOf(a, 2)
           /\ pc[w1] = "ready" => resp[w1].sql_query = QueryOf(a, 2)
           /\ calls[w1] <= 1

C14_Witness ==
  /\ Applied(w1)
  /\ req[w1].text = TwoPhrases(2, 1)
  /\ req[w1].query_type = "available_slots"
  /\ calls[w1] = 1
  /\ resp[w1].sql_query = SELECT_STATUS("available")

\* worker w1's last request was a regex "show available slots" whose select
\* was applied
ShownAvailable ==
  Applied(w1) /\ req[w1].app = "app" /\ req[w1].query_type = "available_slots"

\* C15: "show available slots" answers exactly the slots whose status is
\* available at that moment, and a "show available slots" that follows
\* another with no slot changed in between answers the same rows.
C15_ShowAvailableIdempotent ==
  ShownAvailable =>
    /\ resp[w1].database_result.data =
         Rows({n \in Slots : status[n] = "available"}, status)
    /\ prev_shown.shown => resp[w1].database_result.data = prev_shown.data

C15_Witness ==
  /\ ShownAvailable
  /\ prev_shown.shown
  /\ Len(prev_shown.data) > 0
  /\ Len(prev_shown.data) < NumSlots

\* C16 as stated: handling one request issues at most one SDK operation.
C16_AtMostOneCall == calls[w1] <= 1

\* C16 amended: handling one request issues at most one SDK operation, except
\* book_any_slot, which issues a select and, when it found a slot, one
\* update; no operation is issued again after it raised.
C16_AtMostOneCallButBookAny ==
  /\ calls[w1] <= IF req[w1].query_type = "book_any_slot" THEN 2 ELSE 1
  /\ calls[w1] = 2 => slot[w1] \in Slots
  /\ (pc[w1] = "ready" /\ Raised(resp[w1])) =>
       calls[w1] = IF slot[w1] \in Slots THEN 2 ELSE 1

C16_Witness ==
  /\ Applied(w1)
  /\ req[w1].query_type = "book_any_slot"
  /\ calls[w1] = 2
  /\ status[slot[w1]] = "booked"

\* the step in which an SDK operation of worker w1's request raises: the
\* request ends at an operation without that operation's result
RaisingStep ==
  /\ pc[w1] \in {"exec", "write"}
  /\ pc'[w1] = "ready"
  /\ calls'[w1] = calls[w1] + 1
  /\ ~resp'[w1].database_result.success
  /\ resp'[w1].database_result.error # "No available slots to book"

\* C17: an exception raised by the backend while a request is executing
\* becomes the error value of the handler that issued the call, which the
\* request's answer carries (the regex resolver's spoken text is "Query
\* failed: <error>"); no slot changes and the worker is ready for the next
\* request.
C17_BackendExceptionCaught ==
  [][RaisingStep =>
       /\ Raised(resp'[w1])
       /\ resp'[w1].error = ""
       /\ req[w1].app = "app" =>
            resp'[w1].tts_text =
              Ws(<<"Query", "failed:", resp'[w1].database_result.error>>)
       /\ status' = status
       /\ pc'[w1] = "ready"]_vars

C17_Witness ==
  /\ pc[w1] = "ready"
  /\ req[w1].app = "app"
  /\ req[w1].query_type = "available_slots"
  /\ resp[w1].database_result.error = "SELECT query failed"
  /\ calls[w1] = 1

\* the step in which worker w1's orchestrator request of intent key gets its
\* answer
OrchAnswered(key) ==
  /\ pc[w1] \in {"exec", "write"}
  /\ req[w1].app = "orch"
  /\ req[w1].query_type = key
  /\ pc'[w1] = "ready"

\* C18: orchestrator book_specific_slot for slot n: slot n becomes booked
\* when it is available (and the update does not raise); when n is booked, in
\* maintenance or no slot of the table, nothing changes; no slot other than n
\* ever changes.
C18_BookSpecificOnlyIfAvailable ==
  [][OrchAnswered("book_specific_slot") =>
       LET n == req[w1].slot_id
       IN /\ \A m \in Slots \ {n} : status'[m] = status[m]
          /\ (n \in Slots /\ status[n] = "available" /\ ~Raised(resp'[w1])) =>
               status'[n] = "booked"
          /\ (n \notin Slots \/ status[n] # "available") => status' = status]_vars

C18_Witness ==
  /\ Applied(w1)
  /\ req[w1].app = "orch"
  /\ req[w1].query_type = "book_specific_slot"
  /\ req[w1].slot_id \in Slots
  /\ status[req[w1].slot_id] = "maintenance"
  /\ resp[w1].database_result.data = <<>>

Available(st) == {n \in Slots : st[n] = "available"}

\* C19: book-any, for a request running alone: it reads the available slot
\* with the smallest slot_id, books that slot and changes no other; when no
\* slot is available it answers success=false "No available slots to book"
\* and changes nothing.
C19_BookAnySmallestAvailable ==
  [][(req[w1].query_type = "book_any_slot" /\ pc[w1] \in {"exec", "write"}) =>
       /\ (pc[w1] = "exec" /\ pc'[w1] = "write") =>
            /\ Available(status) # {}
            /\ slot'[w1] = Min(Available(status))
            /\ status' = status
       /\ (pc[w1] = "exec" /\ pc'[w1] = "ready" /\ ~Raised(resp'[w1])) =>
            /\ Available(status) = {}
            /\ ~resp'[w1].success
            /\ resp'[w1].database_result.error = "No available slots to book"
            /\ status' = status
       /\ (pc[w1] = "write" /\ pc'[w1] = "ready" /\ ~Raised(resp'[w1])) =>
            /\ slot[w1] = Min(Available(status))
            /\ status' = [status EXCEPT ![slot[w1]] = "booked"]
            /\ resp'[w1].success
       /\ Raised(resp'[w1]) => status' = status]_vars

C19_Witness ==
  /\ Applied(w1)
  /\ req[w1].query_type = "book_any_slot"
  /\ slot[w1] > 1
  /\ status[slot[w1]] = "booked"
  /\ \A m \in 1..(slot[w1] - 1) : status[m] = "maintenance"

\* the table after every slot of status from has been given status to
Bulk(st, from, to) == [n \in Slots |-> IF st[n] = from THEN to ELSE st[n]]

\* C20: release_all_slots makes every booked slot available and book_all_slots
\* makes every available slot booked; every other slot keeps its status.
C20_BulkUpdateFrame ==
  [][/\ (OrchAnswered("release_all_slots") /\ ~Raised(resp'[w1])) =>
          status' = Bulk(status, "booked", "available")
     /\ (OrchAnswered("book_all_slots") /\ ~Raised(resp'[w1])) =>
          status' = Bulk(status, "available", "booked")]_vars

C20_Witness ==
  /\ Applied(w1)
  /\ req[w1].query_type = "release_all_slots"
  /\ Len(resp[w1].database_result.data) > 0
  /\ \E n \in Slots : status[n] = "maintenance"
  /\ \A n \in Slots : status[n] # "booked"

\* the single-slot updates whose WHERE clause names the slot only, and the
\* status each of them sets
UnconditionalStatus(q) ==
  CASE q.app = "app" /\ q.query_type = "book_slot" -> "booked"
    [] q.app = "app" /\ q.query_type = "release_slot" -> "available"
    [] q.app = "orch" /\ q.query_type = "release_specific_slot" -> "available"
    [] q.app = "orch" /\ q.query_type = "set_maintenance" -> "maintenance"
    [] OTHER -> ""

SlotOf(q) == IF q.app = "orch" THEN q.slot_id ELSE int(q.parameters)

\* C21: a single-slot update without a status condition (release slot n, set
\* maintenance n, the regex resolver's book slot n) whose update does not
\* raise sets slot n to the new status whatever n's status was, maintenance
\* included, and changes no other slot; when n is no slot of the table
\* nothing changes.
C21_UnconditionalUpdate ==
  [][(pc[w1] = "exec" /\ pc'[w1] = "ready"
      /\ UnconditionalStatus(req[w1]) # "" /\ ~Raised(resp'[w1])) =>
       LET n == SlotOf(req[w1])
       IN IF n \in Slots
          THEN status' = [status EXCEPT ![n] = UnconditionalStatus(req[w1])]
          ELSE status' = status]_vars

C21_Witness ==
  /\ Applied(w1)
  /\ req[w1].app = "app"
  /\ req[w1].query_type = "book_slot"
  /\ SlotOf(req[w1]) \in Slots
  /\ status[SlotOf(req[w1])] = "booked"
  /\ resp[w1].database_result.data = <<Row(SlotOf(req[w1]), "booked")>>
  /\ \E m \in Slots : status[m] = "maintenance"

\* the classifier's label string does not end in an integer
Unparsable(label_str) == label_str # <<>> /\ label_str[Len(label_str)].k # "n"

\* C22: a request whose classifier label does not end in a parsable integer
\* is treated as the fallback intent: it is answered with the out-of-scope
\* error, no query is executed and no slot's status changes.
C22_UnparsableLabelRefused ==
  [][(req'[w1].app = "orch" /\ Unparsable(req'[w1].label)) =>
       /\ pc'[w1] = "ready"
       /\ ~resp'[w1].success
       /\ resp'[w1].error = OUT_OF_SCOPE
       /\ status' = status]_vars

\* C23: demo variant (working_app.py): a "book slot n" request for an
\* existing slot n sets slot n to booked in DEMO_DATA and returns the message
\* that slot n was booked, and a "show available slots" request that follows
\* it does not list slot n.
C23_DemoBookSlot ==
  [][/\ (/\ pc[w1] = "exec" /\ pc'[w1] = "ready"
         /\ req[w1].app = "demo" /\ req[w1].query_type = "book_slot"
         /\ req[w1].parameters # <<>> /\ int(req[w1].parameters) \in Slots) =>
          /\ status'[int(req[w1].parameters)] = "booked"
          /\ resp'[w1].database_result.message = BookedMessage(int(req[w1].parameters))
     /\ (/\ pc[w1] = "exec" /\ pc'[w1] = "ready"
         /\ req[w1].app = "demo" /\ req[w1].query_type = "available_slots"
         /\ prev_booked \in Slots) =>
          \A i \in 1..Len(resp'[w1].database_result.data) :
            resp'[w1].database_result.data[i].id # prev_booked]_vars

\* nothing but whitespace (the missing and the empty text included)
Blank(text) == \A i \in 1..Len(text) : text[i] = SP

\* C24: a /query request whose text is missing, empty or only whitespace is
\* answered success=false with "No voice text provided", before any intent is
\* resolved; no backend call is made and no slot changes.
C24_BlankTextRefused ==
  [][(req'[w1].app \in {"app", "simple"} /\ Blank(req'[w1].text)) =>
       /\ pc'[w1] = "ready"
       /\ ~resp'[w1].success
       /\ resp'[w1].error = "No voice text provided"
       /\ resp'[w1].query_type = ""
       /\ resp'[w1].suggestions = <<>>
       /\ resp'[w1].database_result = NoResult
       /\ calls'[w1] = 0
       /\ status' = status]_vars

C24_Witness ==
  /\ pc[w1] = "ready"
  /\ req[w1].app = "app"
  /\ req[w1].text = <<>>
  /\ resp[w1].error = "No voice text provided"
  /\ prev_booked \in Slots
  /\ status[prev_booked] = "booked"

\* the token that follows "column =" in the query, NoFilter when the query
\* does not compare the column
NoFilter == W("")

Filter(sql, column) ==
  LET hits == {i \in 1..(Len(sql) - 2) : sql[i] = W(column) /\ sql[i + 1] = W("=")}
  IN IF hits = {} THEN NoFilter ELSE sql[Min(hits) + 2]

\* the rows of parking_slots named by the filter of a SELECT
Named(sql, st) ==
  IF Filter(sql, "slot_id") # NoFilter
  THEN Rows({int(Filter(sql, "slot_id").d)} \cap Slots, st)
  ELSE IF Filter(sql, "status") # NoFilter
  THEN Rows({n \in Slots : st[n] = Filter(sql, "status").w}, st)
  ELSE Rows(Slots, st)

IsSlotSelect(sql) ==
  sql # <<>> /\ sql[1] = W("SELECT") /\ HasWord(sql, "parking_slots")

\* C25: a SELECT on parking_slots that did not raise returns exactly the rows
\* its filter names, ordered by slot_id: slot n alone for slot_id=n (no row
\* when n is no slot of the table), the slots of the named status for a
\* status filter, every slot otherwise; a slot-status answer never holds
\* another slot's record.
C25_SelectReturnsNamedRows ==
  (Applied(w1) /\ IsSlotSelect(req[w1].sql_query)) =>
    /\ resp[w1].database_result.data = Named(req[w1].sql_query, status)
    /\ req[w1].query_type \in {"slot_status", "get_specific_slot_status"} =>
         \A i \in 1..Len(resp[w1].database_result.data) :
           resp[w1].database_result.data[i].id = SlotOf(req[w1])

C25_Witness ==
  /\ Applied(w1)
  /\ req[w1].query_type = "get_specific_slot_status"
  /\ SlotOf(req[w1]) = 1
  /\ resp[w1].database_result.data = <<Row(1, "maintenance")>>
  /\ \A m \in Slots \ {1} : status[m] = "booked"

\* C26: while the orchestrator's intents are handled one after the other, a
\* slot in maintenance never becomes booked in one step: its next status is
\* maintenance or available (book_specific_slot, book_any_slot and
\* book_all_slots leave it alone).
C26_MaintenanceNeverBooked ==
  [][\A n \in Slots :
       (req[w1].app = "orch" /\ status[n] = "maintenance") =>
         status'[n] \in {"maintenance", "available"}]_vars

C26_Witness ==
  /\ Applied(w1)
  /\ req[w1].app = "orch"
  /\ req[w1].query_type = "book_all_slots"
  /\ Len(resp[w1].database_result.data) > 0
  /\ \E n \in Slots : status[n] = "maintenance"
  /\ \A n \in Slots : status[n] \in {"maintenance", "booked"}

====
